---------------------------- MODULE Spec2Model ----------------------------
(***************************************************************************)
(* A model of asgi_webdav's request record (asgi_webdav/request.py,        *)
(* class DAVRequest) and of the body reader of asgi_webdav/helpers.py.     *)
(*                                                                         *)
(* Text.  A Python str/bytes value is a sequence of lexemes.  The bracket  *)
(* and separator characters the code searches for  ( ) < > [ ] :  and the  *)
(* letters of the literal "Not", the digits, the sign and the blank are    *)
(* single characters.  A run of characters that holds none of them and is  *)
(* never searched, split or measured by the code is one lexeme:            *)
(*    "k"   the scheme text  opaquelocktoken                               *)
(*    "U1", "U2"   the 36-character text of two different UUIDs            *)
(*    "x"   a text that is no UUID,   "e"  the text of an entity tag       *)
(*    "h"   the text  http://host  of a URL,   "/a"  its path              *)
(* Indexes are Python's: 0-based, find/rfind return -1 for "not found".    *)
(*                                                                         *)
(* Optional values.  An Optional[str] / Optional[int] is a sequence of     *)
(* length 0 (None, or a field not yet assigned) or 1.  An Optional[UUID]   *)
(* is one of the UUID lexemes or the string "None".                        *)
(***************************************************************************)
EXTENDS Integers, Sequences, FiniteSets, TLC

VARIABLES
    pc,                 \* position of the running operation
    raised,             \* the exception that left the operation, or "None"
    scope_method,       \* scope["method"]
    headers,            \* self.headers: header name -> Optional[bytes]
    method,             \* self.method (Optional: assigned by __post_init__)
    depth,              \* self.depth
    overwrite,          \* self.overwrite (Optional[bool])
    timeout,            \* self.timeout (Optional[int])
    lock_token,         \* self.lock_token
    lock_token_path,    \* self.lock_token_path
    lock_token_etag,    \* self.lock_token_etag
    lock_token_is_parsed_success,
    data,               \* _parser_header_if: the local  data
    tokens,             \* _parser_header_if: the local  tokens
    body,               \* self.body, as the element tree expat reads from it
    body_is_parsed_success,
    propfind_only_fetch_property_name,
    propfind_fetch_all_property,
    propfind_only_fetch_basic,
    propfind_basic_keys,
    propfind_extra_keys,
    proppatch_entries,
    receive,            \* the messages the receive callable will deliver
    received,           \* how many of them receive() has returned
    rdata,              \* receive_all_data_in_one_call: the local  data
    more_body           \* receive_all_data_in_one_call: the local  more_body

vars == << pc, raised, scope_method, headers, method, depth, overwrite, timeout,
           lock_token, lock_token_path, lock_token_etag,
           lock_token_is_parsed_success, data, tokens,
           body, body_is_parsed_success, propfind_only_fetch_property_name,
           propfind_fetch_all_property, propfind_only_fetch_basic,
           propfind_basic_keys, propfind_extra_keys, proppatch_entries,
           receive, received, rdata, more_body >>

headerVars == << scope_method, headers, method, depth, overwrite, timeout,
                 lock_token, lock_token_path, lock_token_etag,
                 lock_token_is_parsed_success, data, tokens >>

bodyVars == << body, body_is_parsed_success, propfind_only_fetch_property_name,
               propfind_fetch_all_property, propfind_only_fetch_basic,
               propfind_basic_keys, propfind_extra_keys, proppatch_entries >>

recvVars == << receive, received, rdata, more_body >>

---------------------------------------------------------------------------
(* Bounds of the model.                                                    *)

\* The If: headers are the concatenations of at most MaxLists list forms.
MaxLists == 2
\* The receive callable delivers at most MaxMsgs messages.
MaxMsgs == 3
\* A PROPPATCH body holds at most MaxActions set/remove elements.
MaxActions == 3

---------------------------------------------------------------------------
(* Python's str operations, as the code uses them.                         *)

Min(a, b) == IF a < b THEN a ELSE b

\* data.find(ch): the 0-based index of the first ch, -1 when there is none.
find(s, ch) ==
    IF \E i \in 1..Len(s) : s[i] = ch
    THEN (CHOOSE i \in 1..Len(s) : s[i] = ch /\ \A j \in 1..(i-1) : s[j] # ch) - 1
    ELSE -1

\* data.rfind(ch): the 0-based index of the last ch, -1 when there is none.
rfind(s, ch) ==
    IF \E i \in 1..Len(s) : s[i] = ch
    THEN (CHOOSE i \in 1..Len(s) : s[i] = ch /\ \A j \in (i+1)..Len(s) : s[j] # ch) - 1
    ELSE -1

\* data[a:b] for 0 <= a and 0 <= b.
Slice(s, a, b) == SubSeq(s, a + 1, Min(b, Len(s)))

\* data[a:] for 0 <= a.
SliceFrom(s, a) == SubSeq(s, a + 1, Len(s))

\* data.startswith(p)
startswith(s, p) == Len(s) >= Len(p) /\ SubSeq(s, 1, Len(p)) = p

NotLiteral == << "N", "o", "t" >>

None == << >>
Some(v) == << v >>


---------------------------------------------------------------------------
(* Library conversions the parser calls.                                   *)

Digits == { "0", "1", "2", "3", "4", "5", "6", "7", "8", "9" }

DigitValue(c) ==
    CASE c = "0" -> 0 [] c = "1" -> 1 [] c = "2" -> 2 [] c = "3" -> 3
      [] c = "4" -> 4 [] c = "5" -> 5 [] c = "6" -> 6 [] c = "7" -> 7
      [] c = "8" -> 8 [] c = "9" -> 9

RECURSIVE DecimalValue(_)
DecimalValue(s) ==
    IF s = << >> THEN 0
    ELSE 10 * DecimalValue(SubSeq(s, 1, Len(s) - 1)) + DigitValue(s[Len(s)])

RECURSIVE StripBlanks(_)
StripBlanks(s) ==
    IF s # << >> /\ s[1] = " " THEN StripBlanks(Tail(s))
    ELSE IF s # << >> /\ s[Len(s)] = " " THEN StripBlanks(SubSeq(s, 1, Len(s) - 1))
    ELSE s

\* Python's int(b"..."): blanks around, an optional sign, one or more digits;
\* anything else raises ValueError (ok = FALSE).
PyInt(s) ==
    LET t == StripBlanks(s)
        signed == t # << >> /\ t[1] \in { "+", "-" }
        d == IF signed THEN Tail(t) ELSE t
    IN  IF d # << >> /\ \A i \in 1..Len(d) : d[i] \in Digits
        THEN [ ok |-> TRUE,
               val |-> IF signed /\ t[1] = "-" THEN 0 - DecimalValue(d)
                       ELSE DecimalValue(d) ]
        ELSE [ ok |-> FALSE, val |-> 0 ]

\* The texts uuid.UUID accepts (a text of 32 hexadecimal digits).
UUIDTexts == { "U1", "U2" }

\* uuid.UUID(token): the UUID, or "None" where it raises ValueError.
UUID(token) ==
    IF Len(token) = 1 /\ token[1] \in UUIDTexts THEN token[1] ELSE "None"

\* urlparse(url).path: the URL without its scheme and authority.
UrlPath(url) == SelectSeq(url, LAMBDA c : c # "h")

---------------------------------------------------------------------------
(* DAVRequest: the header parsers.                                         *)

\* constants.DAV_METHODS
DAV_METHODS == { "OPTIONS", "HEAD", "GET", "PUT", "DELETE", "MKCOL", "PROPFIND",
                 "PROPPATCH", "COPY", "MOVE", "LOCK", "UNLOCK" }

\* DAVRequest._take_string_from_brackets
_take_string_from_brackets(d, start, end) ==
    LET begin_index == find(d, start)
        end_index == find(d, end)
    IN  IF begin_index = -1 \/ end_index = -1 THEN None
        ELSE Some(Slice(d, begin_index + 1, end_index))

\* _parser_lock_token_str, keeping the text uuid.UUID refuses.
M_parser_lock_token_str(d) ==
    LET inner == _take_string_from_brackets(d, "<", ">")
    IN  IF inner = None THEN "None"
        ELSE LET index == rfind(inner[1], ":")
             IN  IF index = -1 \/ SliceFrom(inner[1], index + 1) = << >> THEN "None"
                 ELSE SliceFrom(inner[1], index + 1)[1]

\* DAVRequest._parser_lock_token_str
_parser_lock_token_str(d) ==
    LET inner == _take_string_from_brackets(d, "<", ">")
    IN  IF inner = None THEN "None"
        ELSE LET index == rfind(inner[1], ":")
             IN  IF index = -1 THEN "None"
                 ELSE UUID(SliceFrom(inner[1], index + 1))

\* _parser_header_if, before its loop: the tagged resource of the header.
TaggedListPath(d, current) ==
    LET begin_index == find(d, "(")
    IN  IF begin_index = -1 THEN current
        ELSE LET p == _take_string_from_brackets(Slice(d, 0, begin_index), "<", ">")
             IN  IF p = None \/ p = Some(<< >>) THEN current
                 ELSE IF Len(UrlPath(p[1])) # 0 THEN Some(UrlPath(p[1]))
                 ELSE current

\* LoopRest, cut at the ")" instead of after it.
M_LoopRest(d) == SliceFrom(d, find(d, ")"))

\* _parser_header_if: what one pass of the loop leaves in  data.
LoopRest(d) == SliceFrom(d, find(d, ")") + 1)

\* _parser_header_if: the block of one pass of the loop.
LoopBlock(d) == Slice(d, find(d, "(") + 1, find(d, ")"))

\* DepthOfHeader, with 0 as the depth of a request without the header.
M_DepthOfHeader(h, current) ==
    IF h = None THEN "d0"
    ELSE IF h[1] = << "i", "n", "f", "i", "n", "i", "t", "y" >> THEN "infinity"
    ELSE LET n == PyInt(h[1])
         IN  IF n.ok /\ n.val = 0 THEN "d0"
             ELSE IF n.ok /\ n.val = 1 THEN "d1"
             ELSE "ExpatError"

\* The Depth: header's value; "ExpatError" where __post_init__ raises it.
DepthOfHeader(h, current) ==
    IF h = None THEN current
    ELSE IF h[1] = << "i", "n", "f", "i", "n", "i", "t", "y" >> THEN "infinity"
    ELSE LET n == PyInt(h[1])
         IN  IF n.ok /\ n.val = 0 THEN "d0"
             ELSE IF n.ok /\ n.val = 1 THEN "d1"
             ELSE "ExpatError"

\* The Timeout: header's value; ok = FALSE where int() raises ValueError.
TimeoutOfHeader(h) ==
    IF h # None /\ h[1] # << >> THEN PyInt(SliceFrom(h[1], 7))
    ELSE [ ok |-> TRUE, val |-> 0 ]

\* The Overwrite: header's value.
OverwriteOfHeader(h) == ~ ((IF h = None THEN << "F" >> ELSE h[1]) = << "F" >>)

---------------------------------------------------------------------------
(* The requests the transport hands over: scope["method"], scope["headers"]. *)

Methods == { "PROPFIND", "PROPPATCH", "MOVE", "COPY", "LOCK", "PUT", "BREW" }

DepthHeaders ==
    { None, Some(<< "0" >>), Some(<< "1" >>),
      Some(<< "i", "n", "f", "i", "n", "i", "t", "y" >>),
      Some(<< "2" >>), Some(<< "x" >>), Some(<< >>) }

OverwriteHeaders == { None, Some(<< "T" >>), Some(<< "F" >>) }

SecondText == << "S", "e", "c", "o", "n", "d", "-" >>
InfiniteText == << "I", "n", "f", "i", "n", "i", "t", "e" >>

TimeoutHeaders ==
    { None, Some(<< >>), Some(SecondText \o << "0" >>), Some(SecondText \o << "7" >>),
      Some(SecondText \o << "3", "6", "0", "0" >>), Some(InfiniteText),
      Some(InfiniteText \o << ",", " " >> \o SecondText \o << "9" >>) }

Token(t) == << "<", "k", ":", t, ">" >>
Etag == << "[", "e", "]" >>

\* The forms of one list of an If: header, well-formed and not.
ListForms ==
    { << "(" >> \o Token("U1") \o << ")" >>,
      << " ", "(" >> \o Token("U2") \o << " " >> \o Etag \o << ")" >>,
      << "(" >> \o NotLiteral \o << " " >> \o Token("U1") \o << ")" >>,
      << "(" >> \o Token("x") \o << ")" >>,
      << " ", "(" >> \o Token("U2"),
      << "(", "<", "k", ":", "U1", ")" >>,
      << "(" >> \o Token("U1") \o << " ", "[", "e", ")" >>,
      << "(", "<", "U1", ">", ")" >>,
      << "(" >> \o Etag \o << ")" >>,
      << ")" >>,
      << "(" >>,
      Token("U1") }

RECURSIVE Lists(_)
Lists(n) ==
    IF n = 0 THEN { << >> }
    ELSE Lists(n - 1) \cup { a \o b : a \in Lists(n - 1), b \in ListForms }

\* The tagged resource that may precede the lists.
Tags == { << >>, << "<", "h", "/a", ">", " " >> }

IfHeaders == { None } \cup { Some(t \o l) : t \in Tags, l \in Lists(MaxLists) }

LockTokenHeaders ==
    { None, Some(<< >>), Some(Token("U2")), Some(Token("x")),
      Some(<< "<", "k", ":", "U1" >>) }

Header(d, o, t, i, l) ==
    [ depth |-> d, overwrite |-> o, timeout |-> t, if |-> i, lock_token |-> l ]

\* Requests that differ in method and in the Depth:, Overwrite: and Timeout:
\* headers.
PlainRequests ==
    { << m, Header(d, o, t, i, None) >> :
        m \in Methods, d \in DepthHeaders, o \in OverwriteHeaders,
        t \in TimeoutHeaders, i \in { None, Some(<< "(" >> \o Token("U1") \o << ")" >>) } }

\* Requests that differ in the If: and Lock-Token: headers.
LockRequests ==
    { << m, Header(None, None, None, i, l) >> :
        m \in { "LOCK", "PUT" }, i \in IfHeaders, l \in LockTokenHeaders }

---------------------------------------------------------------------------
(* DAVRequest: the record after the dataclass's __init__, and __post_init__. *)

\* The fields after the dataclass's __init__.
FieldDefaults ==
    /\ raised = "None"
    /\ method = None
    /\ depth = "infinity"
    /\ overwrite = None
    /\ timeout = None
    /\ lock_token = "None"
    /\ lock_token_path = None
    /\ lock_token_etag = None
    /\ lock_token_is_parsed_success = TRUE
    /\ data = << >>
    /\ tokens = << >>
    /\ body = None
    /\ body_is_parsed_success = FALSE
    /\ propfind_only_fetch_property_name = FALSE
    /\ propfind_fetch_all_property = TRUE
    /\ propfind_only_fetch_basic = FALSE
    /\ propfind_basic_keys = { }
    /\ propfind_extra_keys = << >>
    /\ proppatch_entries = << >>
    /\ received = 0
    /\ rdata = << >>
    /\ more_body = Some(TRUE)

\* The fields after __post_init__ on a request of method m without headers.
ConstructedFields(m) ==
    /\ raised = "None"
    /\ scope_method = m
    /\ headers = Header(None, None, None, None, None)
    /\ method = Some(m)
    /\ depth = "infinity"
    /\ overwrite = Some(FALSE)
    /\ timeout = Some(0)
    /\ lock_token = "None"
    /\ lock_token_path = None
    /\ lock_token_etag = None
    /\ lock_token_is_parsed_success = TRUE
    /\ data = << >>
    /\ tokens = << >>
    /\ body = None
    /\ body_is_parsed_success = FALSE
    /\ propfind_only_fetch_property_name = FALSE
    /\ propfind_fetch_all_property = TRUE
    /\ propfind_only_fetch_basic = FALSE
    /\ propfind_basic_keys = { }
    /\ propfind_extra_keys = << >>
    /\ proppatch_entries = << >>
    /\ received = 0
    /\ rdata = << >>
    /\ more_body = Some(TRUE)

Init ==
    /\ pc = "post_init"
    /\ \E r \in PlainRequests \cup LockRequests :
          scope_method = r[1] /\ headers = r[2]
    /\ receive = << >>
    /\ FieldDefaults

Raise(e) == pc' = "raised" /\ raised' = e

\* __post_init__: the method.
PostInitMethod ==
    /\ pc = "post_init"
    /\ method' = Some(scope_method)
    /\ IF scope_method \notin DAV_METHODS
       THEN Raise("NotASGIRequestException")
       ELSE pc' = "depth" /\ UNCHANGED raised
    /\ UNCHANGED << scope_method, headers, depth, overwrite, timeout, lock_token,
                    lock_token_path, lock_token_etag, lock_token_is_parsed_success,
                    data, tokens >>
    /\ UNCHANGED << bodyVars, recvVars >>

\* __post_init__: the Depth: header.
PostInitDepth ==
    /\ pc = "depth"
    /\ LET d == DepthOfHeader(headers.depth, depth)
       IN  IF d = "ExpatError"
           THEN Raise("ExpatError") /\ UNCHANGED depth
           ELSE pc' = "overwrite" /\ depth' = d /\ UNCHANGED raised
    /\ UNCHANGED << scope_method, headers, method, overwrite, timeout, lock_token,
                    lock_token_path, lock_token_etag, lock_token_is_parsed_success,
                    data, tokens >>
    /\ UNCHANGED << bodyVars, recvVars >>

\* __post_init__: the Overwrite: header.
PostInitOverwrite ==
    /\ pc = "overwrite"
    /\ overwrite' = Some(OverwriteOfHeader(headers.overwrite))
    /\ pc' = "timeout"
    /\ UNCHANGED << raised, scope_method, headers, method, depth, timeout, lock_token,
                    lock_token_path, lock_token_etag, lock_token_is_parsed_success,
                    data, tokens >>
    /\ UNCHANGED << bodyVars, recvVars >>

\* __post_init__: the Timeout: header.
PostInitTimeout ==
    /\ pc = "timeout"
    /\ LET t == TimeoutOfHeader(headers.timeout)
       IN  IF t.ok
           THEN pc' = "header_if" /\ timeout' = Some(t.val) /\ UNCHANGED raised
           ELSE Raise("ValueError") /\ UNCHANGED timeout
    /\ UNCHANGED << scope_method, headers, method, depth, overwrite, lock_token,
                    lock_token_path, lock_token_etag, lock_token_is_parsed_success,
                    data, tokens >>
    /\ UNCHANGED << bodyVars, recvVars >>

\* __post_init__: the If: header, up to the loop of _parser_header_if.
PostInitHeaderIf ==
    /\ pc = "header_if"
    /\ IF headers.if = None \/ headers.if = Some(<< >>)
       THEN pc' = "header_lock_token" /\ UNCHANGED << lock_token_path, data, tokens >>
       ELSE /\ pc' = "if_loop"
            /\ lock_token_path' = TaggedListPath(headers.if[1], lock_token_path)
            /\ data' = headers.if[1]
            /\ tokens' = << >>
    /\ UNCHANGED << raised, scope_method, headers, method, depth, overwrite, timeout,
                    lock_token, lock_token_etag, lock_token_is_parsed_success >>
    /\ UNCHANGED << bodyVars, recvVars >>

\* _parser_header_if: whether the loop breaks.
LoopBreaks(d) == find(d, "(") = -1 \/ find(d, ")") = -1

\* _parser_header_if: one pass of the loop that does not break.
ParserHeaderIfLoop ==
    /\ pc = "if_loop"
    /\ ~ LoopBreaks(data)
    /\ \E block \in { LoopBlock(data) } :
       \E token \in { _parser_lock_token_str(block) },
          etag \in { _take_string_from_brackets(block, "[", "]") } :
          IF ~ startswith(block, NotLiteral)
          THEN IF token = "None"
               THEN lock_token_is_parsed_success' = FALSE /\ UNCHANGED tokens
               ELSE tokens' = Append(tokens, << token, etag >>)
                    /\ UNCHANGED lock_token_is_parsed_success
          ELSE UNCHANGED << tokens, lock_token_is_parsed_success >>
    /\ data' = LoopRest(data)
    /\ UNCHANGED << pc, raised, scope_method, headers, method, depth, overwrite,
                    timeout, lock_token, lock_token_path, lock_token_etag >>
    /\ UNCHANGED << bodyVars, recvVars >>

\* _parser_header_if returns; __post_init__ takes the first of its tokens.
ParserHeaderIfReturn ==
    /\ pc = "if_loop"
    /\ LoopBreaks(data)
    /\ IF Len(tokens) = 0
       THEN lock_token_is_parsed_success' = FALSE
            /\ UNCHANGED << lock_token, lock_token_etag >>
       ELSE lock_token' = tokens[1][1] /\ lock_token_etag' = tokens[1][2]
            /\ UNCHANGED lock_token_is_parsed_success
    /\ pc' = "header_lock_token"
    /\ UNCHANGED << raised, scope_method, headers, method, depth, overwrite, timeout,
                    lock_token_path, data, tokens >>
    /\ UNCHANGED << bodyVars, recvVars >>

\* __post_init__: the Lock-Token: header.
PostInitLockToken ==
    /\ pc = "header_lock_token"
    /\ IF headers.lock_token = None \/ headers.lock_token = Some(<< >>)
       THEN UNCHANGED << lock_token, lock_token_is_parsed_success >>
       ELSE LET t == _parser_lock_token_str(headers.lock_token[1])
            IN  IF t = "None"
                THEN lock_token_is_parsed_success' = FALSE /\ UNCHANGED lock_token
                ELSE lock_token' = t /\ UNCHANGED lock_token_is_parsed_success
    /\ pc' = "done"
    /\ UNCHANGED << raised, scope_method, headers, method, depth, overwrite, timeout,
                    lock_token_path, lock_token_etag, data, tokens >>
    /\ UNCHANGED << bodyVars, recvVars >>

Next ==
    \/ PostInitMethod
    \/ PostInitDepth
    \/ PostInitOverwrite
    \/ PostInitTimeout
    \/ PostInitHeaderIf
    \/ ParserHeaderIfLoop
    \/ ParserHeaderIfReturn
    \/ PostInitLockToken

Spec == Init /\ [][Next]_vars

\* The LOCK requests that differ in the If: header alone.
IfInit ==
    /\ pc = "post_init"
    /\ scope_method = "LOCK"
    /\ \E i \in IfHeaders : headers = Header(None, None, None, i, None)
    /\ receive = << >>
    /\ FieldDefaults

\* The steps of __post_init__ are the statements of one synchronous call:
\* each one that can run does.
IfSpec == IfInit /\ [][Next]_vars /\ WF_vars(Next)

---------------------------------------------------------------------------
(* XML bodies.  An element is [name, children, text]; its name is the key  *)
(* xmltodict builds with process_namespaces=True: the namespace URI, ":",  *)
(* and the local name (the local name alone without a namespace).          *)

DAV(local) == << "DAV", ":", ":", local >>
XNS(local) == << "http", ":", "//x/", ":", local >>
NoNS(local) == << local >>

Elem(name, children) == [ name |-> name, children |-> children, text |-> None ]
TextElem(name, text) == [ name |-> name, children |-> << >>, text |-> Some(text) ]

\* The keys of the dict xmltodict builds of sibling elements: their names, each
\* once, in the order of first occurrence.
RECURSIVE KeysOf(_)
KeysOf(children) ==
    IF children = << >> THEN << >>
    ELSE LET front == KeysOf(SubSeq(children, 1, Len(children) - 1))
             last == children[Len(children)].name
         IN  IF \E i \in 1..Len(front) : front[i] = last THEN front
             ELSE Append(front, last)

\* xmltodict.parse's value of an element: None of an empty one, its text, or a
\* dict of its children, where siblings of one name become one list.
RECURSIVE XValue(_)
XValue(e) ==
    IF e.children = << >>
    THEN IF e.text = None THEN [ t |-> "none" ] ELSE [ t |-> "str", s |-> e.text[1] ]
    ELSE LET keys == KeysOf(e.children)
         IN  [ t |-> "dict",
               keys |-> keys,
               vals |-> [ i \in 1..Len(keys) |->
                            LET same == SelectSeq(e.children, LAMBDA c : c.name = keys[i])
                            IN  IF Len(same) = 1 THEN XValue(same[1])
                                ELSE [ t |-> "list",
                                       items |-> [ j \in 1..Len(same) |-> XValue(same[j]) ] ] ] ]

\* key in d, for a dict d
HasKey(d, k) == \E i \in 1..Len(d.keys) : d.keys[i] = k

\* d[k], for a dict d that has k
GetKey(d, k) == d.vals[CHOOSE i \in 1..Len(d.keys) : d.keys[i] = k]

\* d.popitem(), for a dict d: its last item
popitem(d) == << d.keys[Len(d.keys)], d.vals[Len(d.vals)] >>

\* str(value), of a value that is no str
PyStr(v) == IF v.t = "str" THEN v.s ELSE IF v.t = "none" THEN "None" ELSE "repr"

\* constants.DAV_PROPERTY_BASIC_KEYS
DAV_PROPERTY_BASIC_KEYS ==
    { "creationdate", "displayname", "getcontentlanguage", "getcontentlength",
      "getcontenttype", "getetag", "getlastmodified", "resourcetype",
      "supportedlock", "lockdiscovery" }

\* DAVRequest._cut_ns_key
_cut_ns_key(ns_key) ==
    LET index == rfind(ns_key, ":")
    IN  IF index = -1 THEN << << >>, ns_key >>
        ELSE << Slice(ns_key, 0, index), SliceFrom(ns_key, index + 1) >>

\* A local name as the str it is (one lexeme).
LocalName(key) == IF Len(key) = 1 THEN key[1] ELSE ""

---------------------------------------------------------------------------
(* DAVRequest._parser_body_propfind, after the body is read.               *)

PropfindFields(ret, err, name_only, fetch_all, only_basic, basic, extra) ==
    [ ret |-> ret, err |-> err, name_only |-> name_only, fetch_all |-> fetch_all,
      only_basic |-> only_basic, basic |-> basic, extra |-> extra ]

\* The loop over data["DAV::propfind"]["DAV::prop"], a dict.
RECURSIVE ExtraKeysOf(_)
ExtraKeysOf(keys) ==
    IF keys = << >> THEN << >>
    ELSE LET c == _cut_ns_key(keys[1])
         IN  IF LocalName(c[2]) \in DAV_PROPERTY_BASIC_KEYS THEN ExtraKeysOf(Tail(keys))
             ELSE << c >> \o ExtraKeysOf(Tail(keys))

BasicKeysOf(keys) ==
    { LocalName(_cut_ns_key(keys[i])[2]) : i \in 1..Len(keys) } \cap DAV_PROPERTY_BASIC_KEYS

_parser_body_propfind(b) ==
    LET keep(ret, err, name_only, fetch_all) ==
            PropfindFields(ret, err, name_only, fetch_all, propfind_only_fetch_basic,
                           propfind_basic_keys, propfind_extra_keys)
        unchanged(ret) ==
            keep(ret, "None", propfind_only_fetch_property_name,
                 propfind_fetch_all_property)
    IN  IF b.kind = "empty" THEN unchanged(TRUE)
        ELSE IF b.kind = "malformed" THEN unchanged(FALSE)
        ELSE IF b.root.name # DAV("propfind")
        THEN keep(FALSE, "KeyError", propfind_only_fetch_property_name,
                  propfind_fetch_all_property)
        ELSE LET d == XValue(b.root)
             IN  IF d.t # "dict"
                 THEN keep(FALSE, "TypeError", propfind_only_fetch_property_name,
                           propfind_fetch_all_property)
                 ELSE IF HasKey(d, NoNS("propname"))
                 THEN keep(TRUE, "None", TRUE, propfind_fetch_all_property)
                 ELSE IF HasKey(d, DAV("allprop")) THEN unchanged(TRUE)
                 ELSE IF ~ HasKey(d, DAV("prop"))
                 THEN keep(FALSE, "None", propfind_only_fetch_property_name, FALSE)
                 ELSE LET p == GetKey(d, DAV("prop"))
                      IN  IF p.t = "none"
                          THEN keep(FALSE, "TypeError",
                                    propfind_only_fetch_property_name, FALSE)
                          ELSE IF p.t # "dict"
                          THEN keep(FALSE, "AttributeError",
                                    propfind_only_fetch_property_name, FALSE)
                          ELSE LET extra == propfind_extra_keys \o ExtraKeysOf(p.keys)
                               IN  PropfindFields(
                                       TRUE, "None", propfind_only_fetch_property_name,
                                       FALSE,
                                       IF Len(extra) = 0 THEN TRUE
                                       ELSE propfind_only_fetch_basic,
                                       propfind_basic_keys \cup BasicKeysOf(p.keys),
                                       extra)

---------------------------------------------------------------------------
(* DAVRequest._parser_body_proppatch, after the body is read.  A pass of   *)
(* its inner loop is a step: the entry it appends, or the exception that   *)
(* leaves the parser with the entries appended so far.                     *)

EntryStep(ns_key, value, set_flag) ==
    [ err |-> "None",
      entry |-> << _cut_ns_key(ns_key), PyStr(value), set_flag >> ]

ErrorStep(e) == [ err |-> e, entry |-> << >> ]

\* An item of data[update_symbol][action] where that is a list.
ListItemStep(item, set_flag) ==
    IF item.t # "dict" THEN ErrorStep("TypeError")
    ELSE IF ~ HasKey(item, DAV("prop")) THEN ErrorStep("KeyError")
    ELSE LET p == GetKey(item, DAV("prop"))
         IN  IF p.t # "dict" THEN ErrorStep("AttributeError")
             ELSE EntryStep(popitem(p)[1], popitem(p)[2], set_flag)

\* An item (a key) of data[update_symbol][action] where that is a dict.
DictItemStep(child, set_flag) ==
    IF child.t # "dict" THEN ErrorStep("AttributeError")
    ELSE LET ns_key == popitem(child)[1]
             value == popitem(child)[2]
         IN  IF value.t = "dict"
             THEN EntryStep(ns_key,
                            [ t |-> "str",
                              s |-> LocalName(_cut_ns_key(popitem(value)[1])[2]) ],
                            set_flag)
             ELSE EntryStep(ns_key, value, set_flag)

\* The steps of the inner loop for one key of data[update_symbol].
ActionSteps(action, v) ==
    LET set_flag == _cut_ns_key(action)[2] = << "set" >>
    IN  IF v.t = "list"
        THEN [ i \in 1..Len(v.items) |-> ListItemStep(v.items[i], set_flag) ]
        ELSE IF v.t = "dict"
        THEN [ i \in 1..Len(v.keys) |-> DictItemStep(v.vals[i], set_flag) ]
        ELSE << ErrorStep("TypeError") >>

RECURSIVE AllSteps(_, _)
AllSteps(d, i) ==
    IF i > Len(d.keys) THEN << >>
    ELSE ActionSteps(d.keys[i], d.vals[i]) \o AllSteps(d, i + 1)

\* The entries of the steps before the first exception.
RECURSIVE EntriesOf(_)
EntriesOf(steps) ==
    IF steps = << >> \/ steps[1].err # "None" THEN << >>
    ELSE << steps[1].entry >> \o EntriesOf(Tail(steps))

FirstError(steps) ==
    IF \E i \in 1..Len(steps) : steps[i].err # "None"
    THEN steps[CHOOSE i \in 1..Len(steps) :
                 steps[i].err # "None" /\ \A j \in 1..(i-1) : steps[j].err = "None"].err
    ELSE "None"

_parser_body_proppatch(b) ==
    IF b.kind # "xml" THEN [ ret |-> FALSE, err |-> "None", entries |-> proppatch_entries ]
    ELSE IF b.root.name # DAV("propertyupdate")
    THEN [ ret |-> FALSE, err |-> "KeyError", entries |-> proppatch_entries ]
    ELSE LET d == XValue(b.root)
         IN  IF d.t # "dict"
             THEN [ ret |-> FALSE, err |-> "TypeError", entries |-> proppatch_entries ]
             ELSE LET steps == AllSteps(d, 1)
                  IN  [ ret |-> FirstError(steps) = "None",
                        err |-> FirstError(steps),
                        entries |-> proppatch_entries \o EntriesOf(steps) ]

---------------------------------------------------------------------------
(* The bodies a client sends.                                              *)

\* A PROPFIND body names at most MaxChildren children of <propfind>.
MaxChildren == 2

EmptyBody == [ kind |-> "empty", root |-> Elem(<< >>, << >>) ]
MalformedBody == [ kind |-> "malformed", root |-> Elem(<< >>, << >>) ]
XmlBody(root) == [ kind |-> "xml", root |-> root ]

RECURSIVE SeqsUpTo(_, _)
SeqsUpTo(S, n) ==
    IF n = 0 THEN { << >> }
    ELSE SeqsUpTo(S, n - 1) \cup { Append(q, x) : q \in SeqsUpTo(S, n - 1), x \in S }

\* The properties a PROPFIND <prop> asks for.
PropfindProps ==
    { << >>,
      << Elem(DAV("getetag"), << >>) >>,
      << Elem(XNS("color"), << >>) >>,
      << Elem(DAV("displayname"), << >>), Elem(DAV("getetag"), << >>) >>,
      << Elem(DAV("getetag"), << >>), Elem(NoNS("flavor"), << >>) >>,
      << Elem(XNS("getetag"), << >>), Elem(XNS("color"), << >>) >> }

PropfindChildren ==
    { Elem(DAV("propname"), << >>), Elem(NoNS("propname"), << >>),
      Elem(DAV("allprop"), << >>), Elem(DAV("include"), << >>) }
    \cup { Elem(DAV("prop"), ps) : ps \in PropfindProps }

PropfindBodies ==
    { EmptyBody, MalformedBody }
    \cup { XmlBody(Elem(DAV("propfind"), cs)) : cs \in SeqsUpTo(PropfindChildren, MaxChildren) }

\* The properties of one <prop> of a PROPPATCH <set> or <remove>.
ProppatchProps ==
    { << >>,
      << TextElem(XNS("color"), "red") >>,
      << Elem(NoNS("flavor"), << >>) >>,
      << TextElem(XNS("color"), "red"), TextElem(DAV("displayname"), "n") >>,
      << Elem(XNS("author"), << Elem(DAV("href"), << >>) >>) >> }

ProppatchActions ==
    { Elem(DAV(a), << Elem(DAV("prop"), ps) >>) :
        a \in { "set", "remove" }, ps \in ProppatchProps }

ProppatchBodies ==
    { EmptyBody, MalformedBody }
    \cup { XmlBody(Elem(DAV("propertyupdate"), as)) :
             as \in SeqsUpTo(ProppatchActions, MaxActions) }

BodyMethods == { "PROPFIND", "PROPPATCH", "PUT" }

BodiesOf(m) ==
    IF m = "PROPFIND" THEN PropfindBodies
    ELSE IF m = "PROPPATCH" THEN ProppatchBodies
    ELSE { EmptyBody }

---------------------------------------------------------------------------
(* DAVRequest.parser_body, on a constructed request.                       *)

\* xmltodict parses an empty body as malformed (ExpatError: no element).
AsProppatchBody(b) == IF b.kind = "empty" THEN MalformedBody ELSE b

BodyInit ==
    /\ pc = "parser_body"
    /\ \E m \in BodyMethods : ConstructedFields(m)
    /\ receive = << >>

\* parser_body, with the body receive_all_data_in_one_call returns.
ParserBody ==
    /\ pc = "parser_body"
    /\ \E b \in BodiesOf(scope_method) :
          IF scope_method = "PROPFIND"
          THEN LET r == _parser_body_propfind(b)
               IN  /\ body' = Some(b)
                   /\ propfind_only_fetch_property_name' = r.name_only
                   /\ propfind_fetch_all_property' = r.fetch_all
                   /\ propfind_only_fetch_basic' = r.only_basic
                   /\ propfind_basic_keys' = r.basic
                   /\ propfind_extra_keys' = r.extra
                   /\ raised' = r.err
                   /\ pc' = IF r.err = "None" THEN "body_done" ELSE "raised"
                   /\ body_is_parsed_success' =
                         IF r.err = "None" THEN r.ret ELSE body_is_parsed_success
                   /\ UNCHANGED proppatch_entries
          ELSE IF scope_method = "PROPPATCH"
          THEN LET r == _parser_body_proppatch(AsProppatchBody(b))
               IN  /\ body' = Some(b)
                   /\ proppatch_entries' = r.entries
                   /\ raised' = r.err
                   /\ pc' = IF r.err = "None" THEN "body_done" ELSE "raised"
                   /\ body_is_parsed_success' =
                         IF r.err = "None" THEN r.ret ELSE body_is_parsed_success
                   /\ UNCHANGED << propfind_only_fetch_property_name,
                                   propfind_fetch_all_property,
                                   propfind_only_fetch_basic, propfind_basic_keys,
                                   propfind_extra_keys >>
          ELSE /\ body_is_parsed_success' = FALSE
               /\ pc' = "body_done"
               /\ UNCHANGED << raised, body, propfind_only_fetch_property_name,
                               propfind_fetch_all_property,
                               propfind_only_fetch_basic, propfind_basic_keys,
                               propfind_extra_keys, proppatch_entries >>
    /\ UNCHANGED << headerVars, recvVars >>

BodySpec == BodyInit /\ [][ParserBody]_vars

---------------------------------------------------------------------------
(* helpers.receive_all_data_in_one_call.  A message is a dict that may     *)
(* hold "body" (bytes) and "more_body"; an absent key is None.             *)

Chunks == { None, Some(<< "a" >>), Some(<< "b", "c" >>) }
MoreBodyValues == { None, Some(TRUE), Some(FALSE) }

Messages == { [ body |-> c, more_body |-> m ] : c \in Chunks, m \in MoreBodyValues }

\* request_data.get("body", b"")
BodyOf(msg) == IF msg.body = None THEN << >> ELSE msg.body[1]

\* Truthy, with an absent more_body taken for true.
M_Truthy(m) == m # Some(FALSE)

\* Python's truth value of request_data.get("more_body")
Truthy(m) == m = Some(TRUE)

RecvInit ==
    /\ pc = "recv_loop"
    /\ ConstructedFields("PROPFIND")
    /\ receive \in SeqsUpTo(Messages, MaxMsgs)

\* One pass of the loop: await receive() returns the next message.
ReceiveMessage ==
    /\ pc = "recv_loop"
    /\ Truthy(more_body)
    /\ received < Len(receive)
    /\ LET request_data == receive[received + 1]
       IN  /\ rdata' = rdata \o BodyOf(request_data)
           /\ more_body' = request_data.more_body
    /\ received' = received + 1
    /\ UNCHANGED << pc, raised, receive >>
    /\ UNCHANGED << headerVars, bodyVars >>

\* The loop's test fails: return data.
ReceiveReturn ==
    /\ pc = "recv_loop"
    /\ ~ Truthy(more_body)
    /\ pc' = "recv_done"
    /\ UNCHANGED << raised, recvVars >>
    /\ UNCHANGED << headerVars, bodyVars >>

RecvNext == ReceiveMessage \/ ReceiveReturn

\* The coroutine runs whenever the message it awaits is there.
RecvSpec == RecvInit /\ [][RecvNext]_vars /\ WF_vars(RecvNext)

---------------------------------------------------------------------------
(* Properties of the body reader.                                          *)

\* The place in the stream of the first message whose more_body is absent or
\* false; 0 when every message has more_body true.
FirstFinal(msgs) ==
    IF \E i \in 1..Len(msgs) : msgs[i].more_body # Some(TRUE)
    THEN CHOOSE i \in 1..Len(msgs) :
            /\ msgs[i].more_body # Some(TRUE)
            /\ \A j \in 1..(i-1) : msgs[j].more_body = Some(TRUE)
    ELSE 0

RECURSIVE ConcatBodies(_, _)
ConcatBodies(msgs, n) ==
    IF n = 0 THEN << >>
    ELSE ConcatBodies(msgs, n - 1)
         \o (IF msgs[n].body = None THEN << >> ELSE msgs[n].body[1])

C8_Safe ==
    /\ pc = "recv_done" =>
          /\ FirstFinal(receive) # 0
          /\ received = FirstFinal(receive)
          /\ rdata = ConcatBodies(receive, FirstFinal(receive))
    /\ FirstFinal(receive) # 0 => received <= FirstFinal(receive)

\* C8: receive_all_data_in_one_call returns the concatenation, in arrival
\* order, of the bodies of the messages up to and including the first one whose
\* more_body is absent or false; it calls receive for no later message; it
\* returns whenever such a message arrives, and does not return while every
\* message has more_body true.
C8_ReceiveAll ==
    /\ [] C8_Safe
    /\ (FirstFinal(receive) # 0) ~> (pc = "recv_done")

\* The reader returned after two or more messages, with data, and left a
\* delivered message unread.
C8_Witness ==
    /\ pc = "recv_done"
    /\ received >= 2
    /\ received < Len(receive)
    /\ Len(rdata) >= 2

---------------------------------------------------------------------------
(* Properties of __post_init__.                                            *)

Constructed == pc = "done"

Present(h) == h # None /\ h # Some(<< >>)

\* The pair of the record's lock_token and lock_token_etag fields.
RetainedPairs ==
    IF lock_token = "None" THEN { } ELSE { << lock_token, lock_token_etag >> }

\* C2: the record holds every (token, etag) pair of the If: header's lists,
\* not only the first.
C2_AllPairsRetained ==
    Constructed => \A i \in 1..Len(tokens) : tokens[i] \in RetainedPairs

Count(s, ch, n) == Cardinality({ i \in 1..n : s[i] = ch })

Balanced(s, open, close) ==
    /\ Count(s, open, Len(s)) = Count(s, close, Len(s))
    /\ \A n \in 0..Len(s) : Count(s, close, n) <= Count(s, open, n)

Unbalanced(s) ==
    \/ ~ Balanced(s, "(", ")")
    \/ ~ Balanced(s, "<", ">")
    \/ ~ Balanced(s, "[", "]")

\* C3: an If: header with an unbalanced bracket leaves the request constructed
\* (nothing raised) with lock_token_is_parsed_success false.
C3_UnbalancedSetsFlag ==
    (pc \in { "done", "raised" } /\ Present(headers.if) /\ Unbalanced(headers.if[1]))
        => (pc = "done" /\ lock_token_is_parsed_success = FALSE)

NamedDepth(h) ==
    IF h = Some(<< "0" >>) THEN "d0"
    ELSE IF h = Some(<< "1" >>) THEN "d1"
    ELSE IF h = Some(<< "i", "n", "f", "i", "n", "i", "t", "y" >>) THEN "infinity"
    ELSE "none"

TimeoutRead ==
    \/ pc \in { "header_if", "if_loop", "header_lock_token", "done" }
    \/ (pc = "raised" /\ raised = "ValueError")

IsSecondForm(h) ==
    /\ h # None
    /\ Len(h[1]) > 7
    /\ SubSeq(h[1], 1, 7) = SecondText
    /\ \A i \in 8..Len(h[1]) : h[1][i] \in Digits

\* C5: each form of the Timeout: header yields a timeout and raises nothing:
\* Second-<n> gives n, Infinite gives a (provider-defined) value, an absent
\* header gives 0.
C5_TimeoutForms ==
    TimeoutRead =>
        /\ headers.timeout = None => timeout = Some(0)
        /\ IsSecondForm(headers.timeout) =>
              timeout = Some(DecimalValue(SubSeq(headers.timeout[1], 8,
                                                 Len(headers.timeout[1]))))
        /\ headers.timeout = Some(InfiniteText) => (pc # "raised" /\ timeout # None)

\* C9: the loop of _parser_header_if ends on every If: header: a pass that
\* does not leave the loop shortens data, and the loop is left.
C9_LoopTerminates ==
    /\ [][(pc = "if_loop" /\ pc' = "if_loop") => Len(data') < Len(data)]_vars
    /\ (pc = "if_loop") ~> (pc = "header_lock_token")

\* The loop ran and was left on a header whose first ")" precedes its first "(".
C9_Witness ==
    /\ pc = "header_lock_token"
    /\ Present(headers.if)
    /\ find(headers.if[1], ")") # -1
    /\ find(headers.if[1], ")") < find(headers.if[1], "(")
    /\ Len(data) < Len(headers.if[1])

C10_Inv ==
    Constructed =>
        /\ ((Present(headers.if) \/ Present(headers.lock_token))
              /\ lock_token_is_parsed_success) => lock_token \in UUIDTexts
        /\ (Present(headers.if) /\ tokens = << >>) => ~ lock_token_is_parsed_success
        /\ (Present(headers.lock_token)
              /\ \A u \in UUIDTexts : headers.lock_token[1] # Token(u))
              => ~ lock_token_is_parsed_success

\* C10: on a constructed request with a non-empty If: or Lock-Token: header,
\* lock_token_is_parsed_success implies that lock_token is a UUID; the flag is
\* false where the If: header gave no token or the Lock-Token: header held no
\* UUID, and after a list that is not negated and adds no token; and once
\* false the flag is never true again.
C10_FlagImpliesToken ==
    /\ [] C10_Inv
    /\ [][lock_token_is_parsed_success = FALSE =>
             lock_token_is_parsed_success' = FALSE]_vars
    /\ [][(pc = "if_loop" /\ pc' = "if_loop" /\ tokens' = tokens
            /\ ~ startswith(LoopBlock(data), NotLiteral))
             => lock_token_is_parsed_success' = FALSE]_vars

\* A request with an If: header of two lists, one of them refused, is
\* constructed with the flag false and the other list's token.
C10_Witness ==
    /\ Constructed
    /\ Present(headers.if)
    /\ Len(tokens) = 1
    /\ lock_token \in UUIDTexts
    /\ ~ lock_token_is_parsed_success

---------------------------------------------------------------------------
(* Properties of parser_body.                                              *)

BodyRead == pc \in { "body_done", "raised" }

IsXml(m) == BodyRead /\ scope_method = m /\ body # None /\ body[1].kind = "xml"

HasChild(e, name) == \E i \in 1..Len(e.children) : e.children[i].name = name

\* The (identity, set_flag) of every property of the <prop> elements of a
\* <set> or <remove>, in document order.
RECURSIVE PropsInOrder(_, _)
PropsInOrder(props, set_flag) ==
    IF props = << >> THEN << >>
    ELSE << << _cut_ns_key(props[1].name), set_flag >> >>
         \o PropsInOrder(Tail(props), set_flag)

RECURSIVE ChildrenInOrder(_, _)
ChildrenInOrder(children, set_flag) ==
    IF children = << >> THEN << >>
    ELSE PropsInOrder(children[1].children, set_flag)
         \o ChildrenInOrder(Tail(children), set_flag)

RECURSIVE DocumentOrder(_)
DocumentOrder(actions) ==
    IF actions = << >> THEN << >>
    ELSE ChildrenInOrder(actions[1].children, actions[1].name = DAV("set"))
         \o DocumentOrder(Tail(actions))

\* C1: the entries of proppatch_entries are those of the body in document
\* order, one for each property named under each <set>/<remove>, with set_flag
\* true exactly for the entries of a <set>.
C1_DocumentOrder ==
    (IsXml("PROPPATCH") /\ pc = "body_done") =>
        [ i \in 1..Len(proppatch_entries) |->
            << proppatch_entries[i][1], proppatch_entries[i][3] >> ]
          = DocumentOrder(body[1].root.children)

\* C6: a PROPFIND body with a DAV: <propname/> child is parsed successfully
\* with the selector propname.
C6_PropnameSelected ==
    (IsXml("PROPFIND") /\ HasChild(body[1].root, DAV("propname"))) =>
        /\ pc = "body_done"
        /\ body_is_parsed_success
        /\ propfind_only_fetch_property_name

\* The one <prop> child of a <propfind> that has no propname or allprop.
OnlyProp(root) ==
    /\ Len(SelectSeq(root.children, LAMBDA c : c.name = DAV("prop"))) = 1
    /\ ~ HasChild(root, DAV("propname"))
    /\ ~ HasChild(root, NoNS("propname"))
    /\ ~ HasChild(root, DAV("allprop"))

PropOf(root) == SelectSeq(root.children, LAMBDA c : c.name = DAV("prop"))[1]

InExtraKeys(k) == \E i \in 1..Len(propfind_extra_keys) : propfind_extra_keys[i] = k

\* C7: a PROPFIND body with a <prop> element (with children or without) is
\* parsed successfully; each child is in propfind_basic_keys, where its name is
\* a basic key, or else in propfind_extra_keys; propfind_fetch_all_property is
\* false; propfind_only_fetch_basic is true iff there are no extra keys.
C7_PropPartition ==
    (IsXml("PROPFIND") /\ OnlyProp(body[1].root)) =>
        /\ pc = "body_done"
        /\ body_is_parsed_success
        /\ \A i \in 1..Len(PropOf(body[1].root).children) :
              LET k == _cut_ns_key(PropOf(body[1].root).children[i].name)
              IN  IF LocalName(k[2]) \in DAV_PROPERTY_BASIC_KEYS
                  THEN LocalName(k[2]) \in propfind_basic_keys /\ ~ InExtraKeys(k)
                  ELSE InExtraKeys(k) /\ LocalName(k[2]) \notin propfind_basic_keys
        /\ ~ propfind_fetch_all_property
        /\ propfind_only_fetch_basic <=> (propfind_extra_keys = << >>)

=============================================================================
